---- MODULE Spec2Model ----
(***************************************************************************)
(* dadoo: the container-exec supervisor of guardian                        *)
(* (cmd/dadoo/main_linux.go).  The model has the main goroutine (run and   *)
(* waitForContainerToExit), the background TTY broker goroutine            *)
(* (setupTTYSocket / streamProcess / killProcess), the three I/O pumps     *)
(* and the environment: the runtime front-process, the detached container  *)
(* process, adopted orphans and the kernel's SIGCHLD delivery.             *)
(*                                                                         *)
(* Writes to the inherited descriptors 3 and 5 are taken to succeed (the   *)
(* code ignores their error results).  Paths are modelled by their length. *)
(***************************************************************************)
EXTENDS Integers, Sequences, FiniteSets, TLC

(* ------------------------------ bounds --------------------------------- *)

\* number of unrelated children the supervisor may adopt as subreaper
MaxOrphans == 1

\* lengths of the random sub-directory name ioutil.TempDir may append
MaxNameLen == 10

(* ------------------------- program constants --------------------------- *)

MaxSocketDirPathLength == 80

\* capacity of the signals channel: make(chan os.Signal, 100)
SignalBuffer == 100

\* retrier.ConstantBackoff(20, ...): 20 waits between attempts
RetryBackoffs == 20

\* the FIFOs in the order openPipes opens them
Fifos == <<"stdin", "stdout", "stderr", "winsz", "exit">>

\* len("tty.sock")
TtySockNameLen == Len(<<"t", "t", "y", ".", "s", "o", "c", "k">>)

(* ------------------------- environment inputs -------------------------- *)

\* lengths of the --socket-dir-path flag value that are tried (0: flag
\* unset), around the limit of the length check
DirLens == {0, MaxSocketDirPathLength, MaxSocketDirPathLength + 1}

\* length of os.TempDir(), the base ioutil.TempDir uses for an empty dir
TmpDirLen == Len(<<"/", "t", "m", "p">>)

NameLens == {1, MaxNameLen}

\* which FIFOs the manager has created: all of them, or none of the stdio
\* FIFOs (a process without stdio)
FifoSets == { {"stdin", "stdout", "stderr", "winsz", "exit"},
              {"winsz", "exit"} }

\* pids the kernel hands out
FrontPid == 10
ContPid == 11
OrphanPid == 12

\* how a process can die: exit(n) or killed by signal n (core: core dumped)
FrontDeaths ==
    { [kind |-> "exit", n |-> 0, core |-> FALSE],
      [kind |-> "exit", n |-> 5, core |-> FALSE],
      [kind |-> "signal", n |-> 9, core |-> FALSE] }

ContDeaths ==
    { [kind |-> "exit", n |-> 0, core |-> FALSE],
      [kind |-> "exit", n |-> 7, core |-> FALSE],
      [kind |-> "signal", n |-> 9, core |-> FALSE],
      [kind |-> "signal", n |-> 11, core |-> TRUE] }

NoDeath == [kind |-> "none", n |-> 0, core |-> FALSE]

(* --------------------------- pure functions ---------------------------- *)

\* the kernel's encoding of a wait status (wait(2))
WaitStatusOf(d) ==
    IF d.kind = "exit" THEN d.n * 256
    ELSE d.n + (IF d.core THEN 128 ELSE 0)

\* syscall.WaitStatus.Exited
Exited(w) == w % 128 = 0

\* syscall.WaitStatus.Signaled
Signaled(w) == (w % 128) # 127 /\ (w % 128) # 0

\* syscall.WaitStatus.ExitStatus
ExitStatus(w) == IF Exited(w) THEN (w \div 256) % 256 ELSE -1

\* syscall.WaitStatus.Signal
Signal(w) == IF Signaled(w) THEN w % 128 ELSE -1

\* byte(x): conversion of an int to uint8
Byte(x) == x % 256

\* exit code of a reaped container, waitForContainerToExit lines 114-117
ContainerExitCode_NoSignal(w) == ExitStatus(w)

ContainerExitCode(w) ==
    IF Signaled(w) THEN 128 + Signal(w) ELSE ExitStatus(w)

\* strconv.Itoa for n >= 0, as the sequence of decimal digits
RECURSIVE Itoa(_)
Itoa(n) == IF n < 10 THEN <<n>> ELSE Append(Itoa(n \div 10), n % 10)

\* length of filepath.Join(dir, name) for a clean dir without trailing slash
JoinLen(dirLen, nameLen) == dirLen + 1 + nameLen

\* length of the directory ioutil.TempDir(dir, "") creates
TempDirLen(dirLen, nameLen) ==
    IF dirLen = 0 THEN JoinLen(TmpDirLen, nameLen) ELSE JoinLen(dirLen, nameLen)

\* capacities of the signals channel that are tried when the capacity is
\* left open: the smallest one and the one of the code
SigCaps == {1, SignalBuffer}

(* ------------------------------- state --------------------------------- *)

VARIABLES
    tty,            \* the --tty flag
    socketDirLen,   \* len(*socketDirPath)
    fifosPresent,   \* the FIFOs that exist in processStateDir
    sigCap,         \* capacity of the signals channel
    pc,             \* position of the main goroutine in run
    proc,           \* "running", "exited" (os.Exit) or "panicked"
    exitCode,       \* the supervisor's exit code, -1 while running
    fd3,            \* bytes written to the status channel
    fd5,            \* bytes written to the sync channel
    logFD,          \* "open" or "closed" (closed by the supervisor)
    fifo,           \* per FIFO: "unopened", "open", "absent" or "closed"
    notified,       \* signal.Notify(signals, SIGCHLD) done
    signals,        \* number of SIGCHLD queued in the signals channel
    subreaper,      \* PR_SET_CHILD_SUBREAPER set
    sockDir,        \* "none", "exists" or "removed"
    sockDirLen,     \* length of the path of sockDir
    listener,       \* "none", "listening" or "closed"
    ttySockPathLen, \* length of ttySockPath, 0 before it is computed
    cmd,            \* the runtime command built: form and console socket
    status,         \* wait status of the front-process as seen by Wait4
    containerPid,   \* pid parsed from the pid file by the main sequence
    wstatus,        \* wait status of the container as reaped in Phase B
    startErr,       \* result of runcExecCmd.Start(): "none", "nil" or "err"
    pidReads,       \* number of parsePid calls made by the main sequence
    exitcodeFile,   \* content of <processStateDir>/exitcode, << >> if none
    exitcodeWrites, \* number of times the exitcode file was written
    bpc,            \* position of the TTY broker goroutine
    retries,        \* retries used by readPid in killProcess
    kills,          \* pids SIGKILL was sent to
    ioWg,           \* the sync.WaitGroup counter
    stdoutPump,     \* master -> stdout: "none", "running", "done"
    stdinPump,      \* stdin -> master
    winszPump,      \* winsz events -> ioctl
    front,          \* runtime front-process: none, running, zombie, reaped
    frontDeath,     \* how the front-process died
    conn,           \* console connection: none, pending, accepted
    fdSent,         \* the runtime has sent the master fd
    pidFile,        \* "absent", "partial" (created, empty) or "valid"
    cont,           \* container process: none, running, zombie, reaped
    contDeath,      \* how the container process died
    oLeft,          \* orphans that may still exit
    oZombies        \* adopted orphans waiting to be reaped

flagVars == <<tty, socketDirLen, fifosPresent, sigCap>>
locVars == <<status, containerPid, wstatus, startErr, pidReads>>
mainVars == <<pc, proc, exitCode, locVars>>
hsVars == <<fd3, fd5, logFD>>
sigVars == <<notified, signals, subreaper>>
sockVars == <<sockDir, sockDirLen, listener, ttySockPathLen>>
outVars == <<exitcodeFile, exitcodeWrites>>
brokerVars == <<bpc, retries, kills>>
pumpVars == <<ioWg, stdoutPump, stdinPump, winszPump>>
rtVars == <<front, frontDeath, conn, fdSent, pidFile>>
contVars == <<cont, contDeath, oLeft, oZombies>>

vars == <<flagVars, mainVars, hsVars, fifo, sigVars, sockVars, cmd, outVars,
          brokerVars, pumpVars, rtVars, contVars>>

NoCmd == [form |-> "none", sockLen |-> 0]

\* sending SIGCHLD to a channel registered with signal.Notify: non-blocking,
\* dropped when the channel is full
Notify(q) == IF q < sigCap THEN q + 1 ELSE q

\* the state after construction, but for the flags and the channel capacity
InitRest ==
    /\ pc = "notify"
    /\ proc = "running"
    /\ exitCode = -1
    /\ fd3 = << >>
    /\ fd5 = << >>
    /\ logFD = "open"
    /\ fifo = [i \in 1..Len(Fifos) |-> "unopened"]
    /\ notified = FALSE
    /\ signals = 0
    /\ subreaper = FALSE
    /\ sockDir = "none"
    /\ sockDirLen = 0
    /\ listener = "none"
    /\ ttySockPathLen = 0
    /\ cmd = NoCmd
    /\ status = -1
    /\ containerPid = -1
    /\ wstatus = -1
    /\ startErr = "none"
    /\ pidReads = 0
    /\ exitcodeFile = << >>
    /\ exitcodeWrites = 0
    /\ bpc = "none"
    /\ retries = 0
    /\ kills = {}
    /\ ioWg = 0
    /\ stdoutPump = "none"
    /\ stdinPump = "none"
    /\ winszPump = "none"
    /\ front = "none"
    /\ frontDeath = NoDeath
    /\ conn = "none"
    /\ fdSent = FALSE
    /\ pidFile = "absent"
    /\ cont = "none"
    /\ contDeath = NoDeath
    /\ oLeft = MaxOrphans
    /\ oZombies = 0

Init ==
    /\ tty \in BOOLEAN
    /\ socketDirLen \in (IF tty THEN DirLens ELSE {0})
    /\ fifosPresent \in FifoSets
    /\ sigCap = SignalBuffer
    /\ InitRest

\* the program with the capacity of the signals channel left open, started
\* with all FIFOs present and no --socket-dir-path
InitAnyCap ==
    /\ tty \in BOOLEAN
    /\ socketDirLen = 0
    /\ fifosPresent = {Fifos[i] : i \in 1..Len(Fifos)}
    /\ sigCap \in SigCaps
    /\ InitRest

(* --------------------------- main goroutine ---------------------------- *)

\* a panic (check(err) or an explicit panic) in any goroutine aborts the
\* whole process; the main goroutine stays where it was
Panic ==
    /\ proc' = "panicked"
    /\ UNCHANGED <<pc, exitCode>>

\* return n from run: os.Exit(n)
Return(n) ==
    /\ proc' = "exited"
    /\ pc' = "returned"
    /\ exitCode' = n

Goto(l) ==
    /\ pc' = l
    /\ UNCHANGED <<proc, exitCode>>

\* signals := make(chan os.Signal, 100); signal.Notify(signals, SIGCHLD)
SignalNotify ==
    /\ proc = "running" /\ pc = "notify"
    /\ notified' = TRUE
    /\ Goto("openPipes")
    /\ UNCHANGED <<flagVars, locVars, hsVars, fifo,
                   signals, subreaper, sockVars, cmd, outVars, brokerVars,
                   pumpVars, rtVars, contVars>>

\* index of the FIFO openPipes opens next, 0 when all were tried
NextFifo ==
    IF \E i \in 1..Len(Fifos) : fifo[i] = "unopened"
    THEN CHOOSE i \in 1..Len(Fifos) :
            /\ fifo[i] = "unopened"
            /\ \A j \in 1..(i - 1) : fifo[j] # "unopened"
    ELSE 0

\* one openFifo call of openPipes: the FIFO is opened, or it does not exist
\* and nil is returned
OpenFifo ==
    /\ proc = "running" /\ pc = "openPipes"
    /\ NextFifo # 0
    /\ fifo' = [fifo EXCEPT ![NextFifo] =
                    IF Fifos[NextFifo] \in fifosPresent THEN "open"
                    ELSE "absent"]
    /\ Goto(IF NextFifo = Len(Fifos) THEN "sync" ELSE "openPipes")
    /\ UNCHANGED <<flagVars, locVars, hsVars, sigVars,
                   sockVars, cmd, outVars, brokerVars, pumpVars, rtVars,
                   contVars>>

\* openFifo fails with an error other than "does not exist": check panics
OpenFifoError ==
    /\ proc = "running" /\ pc = "openPipes"
    /\ NextFifo # 0
    /\ Panic
    /\ UNCHANGED <<flagVars, locVars, hsVars, fifo, sigVars, sockVars, cmd, outVars,
                   brokerVars, pumpVars, rtVars, contVars>>

SyncWrite_NoByte ==
    /\ proc = "running" /\ pc = "sync"
    /\ Goto(IF tty THEN "lenCheck" ELSE "cmd")
    /\ UNCHANGED <<flagVars, locVars, hsVars, fifo, sigVars, sockVars, cmd,
                   outVars, brokerVars, pumpVars, rtVars, contVars>>

\* syncPipe.Write([]byte{0})
SyncWrite ==
    /\ proc = "running" /\ pc = "sync"
    /\ fd5' = Append(fd5, 0)
    /\ Goto(IF tty THEN "lenCheck" ELSE "cmd")
    /\ UNCHANGED <<flagVars, locVars, fd3, logFD, fifo,
                   sigVars, sockVars, cmd, outVars, brokerVars, pumpVars,
                   rtVars, contVars>>

LenCheck_NoCheck ==
    /\ proc = "running" /\ pc = "lenCheck"
    /\ Goto("tempDir")
    /\ UNCHANGED <<flagVars, locVars, hsVars, fifo, sigVars, sockVars, cmd,
                   outVars, brokerVars, pumpVars, rtVars, contVars>>

\* if len(*socketDirPath) > MaxSocketDirPathLength { panic(...) }
LenCheck ==
    /\ proc = "running" /\ pc = "lenCheck"
    /\ IF socketDirLen > MaxSocketDirPathLength
       THEN Panic
       ELSE Goto("tempDir")
    /\ UNCHANGED <<flagVars, locVars, hsVars, fifo, sigVars, sockVars, cmd, outVars,
                   brokerVars, pumpVars, rtVars, contVars>>

\* sockDir, err := ioutil.TempDir(sockDirBase, ""); check(err)
TempDir ==
    /\ proc = "running" /\ pc = "tempDir"
    /\ \E n \in NameLens :
          /\ sockDir' = "exists"
          /\ sockDirLen' = TempDirLen(socketDirLen, n)
    /\ Goto("listen")
    /\ UNCHANGED <<flagVars, locVars, hsVars, fifo, sigVars, listener,
                   ttySockPathLen, cmd, outVars, brokerVars, pumpVars, rtVars,
                   contVars>>

TempDirError ==
    /\ proc = "running" /\ pc = "tempDir"
    /\ Panic
    /\ UNCHANGED <<flagVars, locVars, hsVars, fifo, sigVars, sockVars, cmd,
                   outVars, brokerVars, pumpVars, rtVars, contVars>>

\* ttySockPath := filepath.Join(sockDir, "tty.sock");
\* l, err := net.Listen("unix", ttySockPath); check(err)
Listen ==
    /\ proc = "running" /\ pc = "listen"
    /\ ttySockPathLen' = JoinLen(sockDirLen, TtySockNameLen)
    /\ listener' = "listening"
    /\ Goto("goBroker")
    /\ UNCHANGED <<flagVars, locVars, hsVars, fifo, sigVars, sockDir,
                   sockDirLen, cmd, outVars, brokerVars, pumpVars, rtVars,
                   contVars>>

ListenError ==
    /\ proc = "running" /\ pc = "listen"
    /\ ttySockPathLen' = JoinLen(sockDirLen, TtySockNameLen)
    /\ Panic
    /\ UNCHANGED <<flagVars, locVars, hsVars, fifo, sigVars, sockDir,
                   sockDirLen, listener, cmd, outVars, brokerVars, pumpVars,
                   rtVars, contVars>>

\* go func(ln net.Listener) {...}(l); return ttySockPath
GoBroker ==
    /\ proc = "running" /\ pc = "goBroker"
    /\ bpc' = "accept"
    /\ Goto("cmd")
    /\ UNCHANGED <<flagVars, locVars, hsVars, fifo, sigVars, sockVars, cmd,
                   outVars, retries, kills, pumpVars, rtVars, contVars>>

\* runcExecCmd = exec.Command(...), in the TTY or the non-TTY form
BuildCmd ==
    /\ proc = "running" /\ pc = "cmd"
    /\ cmd' = IF tty THEN [form |-> "tty", sockLen |-> ttySockPathLen]
                     ELSE [form |-> "notty", sockLen |-> 0]
    /\ Goto("subreaper")
    /\ UNCHANGED <<flagVars, locVars, hsVars, fifo, sigVars, sockVars,
                   outVars, brokerVars, pumpVars, rtVars, contVars>>

SetSubreaper_Skip ==
    /\ proc = "running" /\ pc = "subreaper"
    /\ Goto("start")
    /\ UNCHANGED <<flagVars, locVars, hsVars, fifo, sigVars, sockVars, cmd,
                   outVars, brokerVars, pumpVars, rtVars, contVars>>

\* system.SetSubreaper(os.Getpid())
SetSubreaper ==
    /\ proc = "running" /\ pc = "subreaper"
    /\ subreaper' = TRUE
    /\ Goto("start")
    /\ UNCHANGED <<flagVars, locVars, hsVars, fifo, notified, signals,
                   sockVars, cmd, outVars, brokerVars, pumpVars, rtVars,
                   contVars>>

\* runcExecCmd.Start() succeeds: the front-process runs
StartOk ==
    /\ proc = "running" /\ pc = "start"
    /\ front' = "running"
    /\ startErr' = "nil"
    /\ Goto("wait4")
    /\ UNCHANGED <<flagVars, status, containerPid, wstatus, pidReads, hsVars, fifo, sigVars, sockVars, cmd,
                   outVars, brokerVars, pumpVars, frontDeath, conn, fdSent,
                   pidFile, contVars>>

\* runcExecCmd.Start() fails: fd3.Write([]byte{2}); return 2
StartFail_Byte3 ==
    /\ proc = "running" /\ pc = "start"
    /\ fd3' = Append(fd3, 3)
    /\ startErr' = "err"
    /\ Return(2)
    /\ UNCHANGED <<flagVars, status, containerPid, wstatus, pidReads, fd5,
                   logFD, fifo, sigVars, sockVars,
                   cmd, outVars, brokerVars, pumpVars, rtVars, contVars>>

StartFail_NoWrite ==
    /\ proc = "running" /\ pc = "start"
    /\ startErr' = "err"
    /\ Return(2)
    /\ UNCHANGED <<flagVars, status, containerPid, wstatus, pidReads, hsVars,
                   fifo, sigVars, sockVars, cmd, outVars, brokerVars,
                   pumpVars, rtVars, contVars>>

StartFail ==
    /\ proc = "running" /\ pc = "start"
    /\ fd3' = Append(fd3, 2)
    /\ startErr' = "err"
    /\ Return(2)
    /\ UNCHANGED <<flagVars, status, containerPid, wstatus, pidReads, fd5,
                   logFD, fifo, sigVars, sockVars,
                   cmd, outVars, brokerVars, pumpVars, rtVars, contVars>>

\* syscall.Wait4(runcExecCmd.Process.Pid, &status, 0, &rusage): blocks until
\* the front-process has died, and reaps it
Wait4Front ==
    /\ proc = "running" /\ pc = "wait4"
    /\ front = "zombie"
    /\ front' = "reaped"
    /\ status' = WaitStatusOf(frontDeath)
    /\ Goto("closeLog")
    /\ UNCHANGED <<flagVars, containerPid, wstatus, startErr, pidReads, hsVars,
                   fifo, sigVars, sockVars, cmd, outVars, brokerVars,
                   pumpVars, frontDeath,
                   conn, fdSent, pidFile, contVars>>

\* Wait4 returns an error: check(err) panics
Wait4FrontError ==
    /\ proc = "running" /\ pc = "wait4"
    /\ Panic
    /\ UNCHANGED <<flagVars, locVars, hsVars, fifo, sigVars, sockVars, cmd,
                   outVars, brokerVars, pumpVars, rtVars, contVars>>

\* logFD.Close()
CloseLog ==
    /\ proc = "running" /\ pc = "closeLog"
    /\ logFD' = "closed"
    /\ Goto("status")
    /\ UNCHANGED <<flagVars, locVars, fd3, fd5, fifo, sigVars, sockVars, cmd,
                   outVars, brokerVars, pumpVars, rtVars, contVars>>

WriteStatus_Return2 ==
    /\ proc = "running" /\ pc = "status"
    /\ fd3' = Append(fd3, Byte(ExitStatus(status)))
    /\ IF ExitStatus(status) # 0 THEN Return(2) ELSE Goto("parsePid")
    /\ UNCHANGED <<flagVars, locVars, fd5, logFD, fifo, sigVars, sockVars,
                   cmd, outVars, brokerVars, pumpVars, rtVars, contVars>>

WriteStatus_NoReturn ==
    /\ proc = "running" /\ pc = "status"
    /\ fd3' = Append(fd3, Byte(ExitStatus(status)))
    /\ Goto("parsePid")
    /\ UNCHANGED <<flagVars, locVars, fd5, logFD, fifo, sigVars, sockVars,
                   cmd, outVars, brokerVars, pumpVars, rtVars, contVars>>

\* fd3.Write([]byte{byte(status.ExitStatus())});
\* if status.ExitStatus() != 0 { return 3 }
WriteStatus ==
    /\ proc = "running" /\ pc = "status"
    /\ fd3' = Append(fd3, Byte(ExitStatus(status)))
    /\ IF ExitStatus(status) # 0 THEN Return(3) ELSE Goto("parsePid")
    /\ UNCHANGED <<flagVars, locVars, fd5, logFD, fifo, sigVars, sockVars,
                   cmd, outVars, brokerVars, pumpVars, rtVars, contVars>>

\* containerPid, err := parsePid(pidFilePath); check(err)
ParsePid ==
    /\ proc = "running" /\ pc = "parsePid"
    /\ pidReads' = pidReads + 1
    /\ IF pidFile = "valid"
       THEN containerPid' = ContPid /\ Goto("recv")
       ELSE Panic /\ UNCHANGED containerPid
    /\ UNCHANGED <<flagVars, status, wstatus, startErr, hsVars, fifo, sigVars, sockVars,
                   cmd, outVars, brokerVars, pumpVars, rtVars, contVars>>

(* ----------------- Phase B: waitForContainerToExit --------------------- *)

\* pids of the supervisor's children Wait4(-1, WNOHANG) can return: the
\* container once it is dead and adopted (its parent, the front-process, has
\* died), and dead adopted orphans.  The front-process was reaped in Phase A.
Reapable ==
    (IF cont = "zombie" /\ front \in {"zombie", "reaped"}
     THEN {ContPid} ELSE {})
    \cup (IF oZombies > 0 THEN {OrphanPid} ELSE {})

\* for range signals: receive one SIGCHLD from the channel
RecvSignal ==
    /\ proc = "running" /\ pc = "recv"
    /\ signals > 0
    /\ signals' = signals - 1
    /\ Goto("reap")
    /\ UNCHANGED <<flagVars, locVars, hsVars, fifo, notified, subreaper,
                   sockVars, cmd, outVars, brokerVars, pumpVars, rtVars,
                   contVars>>

\* Wait4(-1, WNOHANG) returns wpid <= 0 or an error: break
ReapNone ==
    /\ proc = "running" /\ pc = "reap"
    /\ Reapable = {}
    /\ Goto("recv")
    /\ UNCHANGED <<flagVars, locVars, hsVars, fifo, sigVars, sockVars, cmd,
                   outVars, brokerVars, pumpVars, rtVars, contVars>>

ReapOther_Record ==
    /\ proc = "running" /\ pc = "reap"
    /\ \E wpid \in Reapable :
          /\ wpid # containerPid
          /\ IF wpid = OrphanPid
             THEN oZombies' = oZombies - 1 /\ UNCHANGED cont
             ELSE cont' = "reaped" /\ UNCHANGED oZombies
    /\ wstatus' = 0
    /\ Goto("ioWait")
    /\ UNCHANGED <<flagVars, status, containerPid, startErr, pidReads, hsVars,
                   fifo, sigVars, sockVars, cmd, outVars, brokerVars,
                   pumpVars, rtVars, contDeath, oLeft>>

ReapOther_NoLoop ==
    /\ proc = "running" /\ pc = "reap"
    /\ \E wpid \in Reapable :
          /\ wpid # containerPid
          /\ IF wpid = OrphanPid
             THEN oZombies' = oZombies - 1 /\ UNCHANGED cont
             ELSE cont' = "reaped" /\ UNCHANGED oZombies
    /\ Goto("recv")
    /\ UNCHANGED <<flagVars, locVars, hsVars, fifo, sigVars, sockVars, cmd,
                   outVars, brokerVars, pumpVars, rtVars, contDeath, oLeft>>

\* Wait4(-1, WNOHANG) returns a child with wpid != containerPid: loop
ReapOther ==
    /\ proc = "running" /\ pc = "reap"
    /\ \E wpid \in Reapable :
          /\ wpid # containerPid
          /\ IF wpid = OrphanPid
             THEN oZombies' = oZombies - 1 /\ UNCHANGED cont
             ELSE cont' = "reaped" /\ UNCHANGED oZombies
    /\ Goto("reap")
    /\ UNCHANGED <<flagVars, locVars, hsVars, fifo, sigVars, sockVars, cmd,
                   outVars, brokerVars, pumpVars, rtVars, contDeath, oLeft>>

\* Wait4(-1, WNOHANG) returns wpid == containerPid with its status
ReapContainer ==
    /\ proc = "running" /\ pc = "reap"
    /\ \E wpid \in Reapable :
          /\ wpid = containerPid
          /\ wpid = ContPid
          /\ cont' = "reaped"
          /\ wstatus' = WaitStatusOf(contDeath)
    /\ Goto("ioWait")
    /\ UNCHANGED <<flagVars, status, containerPid, startErr, pidReads, hsVars,
                   fifo, sigVars, sockVars, cmd, outVars, brokerVars,
                   pumpVars, rtVars, contDeath, oLeft, oZombies>>

\* ioWg.Wait(): returns when the counter is zero
IoWait ==
    /\ proc = "running" /\ pc = "ioWait"
    /\ ioWg = 0
    /\ Goto("writeExit")
    /\ UNCHANGED <<flagVars, locVars, hsVars, fifo, sigVars, sockVars, cmd,
                   outVars, brokerVars, pumpVars, rtVars, contVars>>

\* ioutil.WriteFile(".../exitcode", []byte(strconv.Itoa(exitCode)), 0700);
\* return exitCode
WriteExitcode ==
    /\ proc = "running" /\ pc = "writeExit"
    /\ exitcodeFile' = Itoa(ContainerExitCode(wstatus))
    /\ exitcodeWrites' = exitcodeWrites + 1
    /\ Return(ContainerExitCode(wstatus))
    /\ UNCHANGED <<flagVars, locVars, hsVars, fifo, sigVars, sockVars, cmd,
                   brokerVars, pumpVars, rtVars, contVars>>

\* ioutil.WriteFile fails: check(err) panics
WriteExitcodeError ==
    /\ proc = "running" /\ pc = "writeExit"
    /\ Panic
    /\ UNCHANGED <<flagVars, locVars, hsVars, fifo, sigVars, sockVars, cmd,
                   outVars, brokerVars, pumpVars, rtVars, contVars>>

(* ------------------------ TTY broker goroutine ------------------------- *)

BrokerGoto(l) ==
    /\ bpc' = l
    /\ UNCHANGED <<retries, kills>>

\* conn, err := ln.Accept()
Accept ==
    /\ proc = "running" /\ bpc = "accept"
    /\ conn = "pending"
    /\ conn' = "accepted"
    /\ BrokerGoto("closeLn")
    /\ UNCHANGED <<flagVars, mainVars, hsVars, fifo, sigVars, sockVars, cmd,
                   outVars, pumpVars, front, frontDeath, fdSent, pidFile,
                   contVars>>

\* ln.Accept() fails: return; the deferred function kills and panics
AcceptError ==
    /\ proc = "running" /\ bpc = "accept"
    /\ BrokerGoto("kill")
    /\ UNCHANGED <<flagVars, mainVars, hsVars, fifo, sigVars, sockVars, cmd,
                   outVars, pumpVars, rtVars, contVars>>

\* ln.Close()
CloseListener ==
    /\ proc = "running" /\ bpc = "closeLn"
    /\ listener' = "closed"
    /\ BrokerGoto("file")
    /\ UNCHANGED <<flagVars, mainVars, hsVars, fifo, sigVars, sockDir,
                   sockDirLen, ttySockPathLen, cmd, outVars, pumpVars, rtVars,
                   contVars>>

\* unixconn, ok := conn.(*net.UnixConn) (always ok for a unix listener);
\* socket, err := unixconn.File()
ConnFile ==
    /\ proc = "running" /\ bpc = "file"
    /\ \E ok \in BOOLEAN : BrokerGoto(IF ok THEN "recvFd" ELSE "kill")
    /\ UNCHANGED <<flagVars, mainVars, hsVars, fifo, sigVars, sockVars, cmd,
                   outVars, pumpVars, rtVars, contVars>>

\* master, err := cmsg.RecvFd(socket): blocks until the runtime has sent the
\* master fd
RecvFd ==
    /\ proc = "running" /\ bpc = "recvFd"
    /\ fdSent
    /\ BrokerGoto("removeAll")
    /\ UNCHANGED <<flagVars, mainVars, hsVars, fifo, sigVars, sockVars, cmd,
                   outVars, pumpVars, rtVars, contVars>>

RecvFdError_NoKill ==
    /\ proc = "running" /\ bpc = "recvFd"
    /\ BrokerGoto("panic")
    /\ UNCHANGED <<flagVars, mainVars, hsVars, fifo, sigVars, sockVars, cmd,
                   outVars, pumpVars, rtVars, contVars>>

\* cmsg.RecvFd fails
RecvFdError ==
    /\ proc = "running" /\ bpc = "recvFd"
    /\ BrokerGoto("kill")
    /\ UNCHANGED <<flagVars, mainVars, hsVars, fifo, sigVars, sockVars, cmd,
                   outVars, pumpVars, rtVars, contVars>>

RemoveAll_Skip ==
    /\ proc = "running" /\ bpc = "removeAll"
    /\ BrokerGoto("stream")
    /\ UNCHANGED <<flagVars, mainVars, hsVars, fifo, sigVars, sockVars, cmd,
                   outVars, pumpVars, rtVars, contVars>>

\* os.RemoveAll(sockDir)
RemoveAll ==
    /\ proc = "running" /\ bpc = "removeAll"
    /\ sockDir' = "removed"
    /\ BrokerGoto("stream")
    /\ UNCHANGED <<flagVars, mainVars, hsVars, fifo, sigVars, sockDirLen,
                   listener, ttySockPathLen, cmd, outVars, pumpVars, rtVars,
                   contVars>>

StreamProcess_AddAll ==
    /\ proc = "running" /\ bpc = "stream"
    /\ ioWg' = ioWg + 3
    /\ stdoutPump' = "running"
    /\ stdinPump' = "running"
    /\ winszPump' = "running"
    /\ BrokerGoto("done")
    /\ UNCHANGED <<flagVars, mainVars, hsVars, fifo, sigVars, sockVars, cmd,
                   outVars, rtVars, contVars>>

\* streamProcess: ioWg.Add(1) and the three pumps are started
StreamProcess ==
    /\ proc = "running" /\ bpc = "stream"
    /\ ioWg' = ioWg + 1
    /\ stdoutPump' = "running"
    /\ stdinPump' = "running"
    /\ winszPump' = "running"
    /\ BrokerGoto("done")
    /\ UNCHANGED <<flagVars, mainVars, hsVars, fifo, sigVars, sockVars, cmd,
                   outVars, rtVars, contVars>>

ReadPidAttempt_KillAlways ==
    /\ proc = "running" /\ bpc = "kill"
    /\ IF pidFile = "valid"
       THEN /\ kills' = kills \cup {ContPid}
            /\ bpc' = "panic"
            /\ UNCHANGED retries
       ELSE IF retries < RetryBackoffs
       THEN /\ retries' = retries + 1
            /\ UNCHANGED <<bpc, kills>>
       ELSE /\ bpc' = "panic"
            /\ kills' = kills \cup {-1}
            /\ UNCHANGED retries
    /\ UNCHANGED <<flagVars, mainVars, hsVars, fifo, sigVars, sockVars, cmd,
                   outVars, pumpVars, rtVars, contVars>>

\* killProcess -> readPid: one attempt of the retrier at parsePid; on
\* success syscall.Kill(pid, SIGKILL); after the last attempt no signal
ReadPidAttempt ==
    /\ proc = "running" /\ bpc = "kill"
    /\ IF pidFile = "valid"
       THEN /\ kills' = kills \cup {ContPid}
            /\ bpc' = "panic"
            /\ UNCHANGED retries
       ELSE IF retries < RetryBackoffs
       THEN /\ retries' = retries + 1
            /\ UNCHANGED <<bpc, kills>>
       ELSE /\ bpc' = "panic"
            /\ UNCHANGED <<retries, kills>>
    /\ UNCHANGED <<flagVars, mainVars, hsVars, fifo, sigVars, sockVars, cmd,
                   outVars, pumpVars, rtVars, contVars>>

\* panic(err) in the deferred function of the broker
BrokerPanic ==
    /\ proc = "running" /\ bpc = "panic"
    /\ Panic
    /\ UNCHANGED <<flagVars, locVars, hsVars, fifo, sigVars, sockVars, cmd,
                   outVars, brokerVars, pumpVars, rtVars, contVars>>

(* ------------------------------ I/O pumps ------------------------------ *)

\* io.Copy(stdout, m) returns on EOF of the master, which needs the container
\* to have died; defer ioWg.Done()
StdoutPumpEOF ==
    /\ proc = "running" /\ stdoutPump = "running"
    /\ cont \in {"zombie", "reaped"}
    /\ stdoutPump' = "done"
    /\ ioWg' = ioWg - 1
    /\ UNCHANGED <<flagVars, mainVars, hsVars, fifo, sigVars, sockVars, cmd,
                   outVars, brokerVars, stdinPump, winszPump, rtVars,
                   contVars>>

\* io.Copy(m, stdin) returns on EOF of the stdin FIFO
StdinPumpEOF ==
    /\ proc = "running" /\ stdinPump = "running"
    /\ stdinPump' = "done"
    /\ UNCHANGED <<flagVars, mainVars, hsVars, fifo, sigVars, sockVars, cmd,
                   outVars, brokerVars, ioWg, stdoutPump, winszPump, rtVars,
                   contVars>>

(* ------------------------ Go runtime: finalizers ----------------------- *)

\* openPipes drops the *os.File of the exit FIFO (line 135), so the file is
\* unreachable as soon as openFifo has returned; whenever the garbage
\* collector runs, the finalizer os.OpenFile has set closes the descriptor
FinalizeExitFifo ==
    /\ proc = "running"
    /\ fifo[Len(Fifos)] = "open"
    /\ fifo' = [fifo EXCEPT ![Len(Fifos)] = "closed"]
    /\ UNCHANGED <<flagVars, mainVars, hsVars, sigVars, sockVars, cmd,
                   outVars, brokerVars, pumpVars, rtVars, contVars>>

(* ----------------------------- environment ----------------------------- *)

\* The environment is followed for as long as the supervisor lives.

\* the runtime connects to the console socket it was given
RtConnect ==
    /\ proc = "running" /\ front = "running" /\ cmd.form = "tty"
    /\ listener = "listening" /\ conn = "none"
    /\ conn' = "pending"
    /\ UNCHANGED <<flagVars, mainVars, hsVars, fifo, sigVars, sockVars, cmd,
                   outVars, brokerVars, pumpVars, front, frontDeath, fdSent,
                   pidFile, contVars>>

\* the runtime sends the master fd over the connection
RtSendFd ==
    /\ proc = "running" /\ front = "running" /\ conn # "none" /\ ~fdSent
    /\ fdSent' = TRUE
    /\ UNCHANGED <<flagVars, mainVars, hsVars, fifo, sigVars, sockVars, cmd,
                   outVars, brokerVars, pumpVars, front, frontDeath, conn,
                   pidFile, contVars>>

\* the runtime forks the detached container process
RtFork ==
    /\ proc = "running" /\ front = "running" /\ cont = "none"
    /\ cmd.form = "tty" => fdSent
    /\ cont' = "running"
    /\ UNCHANGED <<flagVars, mainVars, hsVars, fifo, sigVars, sockVars, cmd,
                   outVars, brokerVars, pumpVars, rtVars, contDeath, oLeft,
                   oZombies>>

\* the pid file is created and then filled with the container's pid
RtWritePid ==
    /\ proc = "running" /\ cont # "none" /\ pidFile # "valid"
    /\ pidFile' = IF pidFile = "absent" THEN "partial" ELSE "valid"
    /\ UNCHANGED <<flagVars, mainVars, hsVars, fifo, sigVars, sockVars, cmd,
                   outVars, brokerVars, pumpVars, front, frontDeath, conn,
                   fdSent, contVars>>

\* the front-process dies; it exits 0 only after it has launched the
\* container.  The supervisor gets SIGCHLD, and one more for a container
\* that is already dead when it is adopted
RtExit ==
    /\ proc = "running" /\ front = "running"
    /\ \E d \in FrontDeaths :
          /\ (d.kind = "exit" /\ d.n = 0) => cont # "none"
          /\ frontDeath' = d
    /\ front' = "zombie"
    /\ signals' = IF ~notified THEN signals
                  ELSE IF cont = "zombie" /\ subreaper
                  THEN Notify(Notify(signals))
                  ELSE Notify(signals)
    /\ UNCHANGED <<flagVars, mainVars, hsVars, fifo, notified, subreaper,
                   sockVars, cmd, outVars, brokerVars, pumpVars, conn, fdSent,
                   pidFile, contVars>>

\* the container process dies; the supervisor gets SIGCHLD if it is the
\* parent by then
ContExit ==
    /\ proc = "running" /\ cont = "running"
    /\ \E d \in ContDeaths : contDeath' = d
    /\ cont' = "zombie"
    /\ signals' = IF notified /\ subreaper /\ front # "running"
                  THEN Notify(signals) ELSE signals
    /\ UNCHANGED <<flagVars, mainVars, hsVars, fifo, notified, subreaper,
                   sockVars, cmd, outVars, brokerVars, pumpVars, rtVars,
                   oLeft, oZombies>>

\* an adopted orphan dies
OrphanExit ==
    /\ proc = "running" /\ oLeft > 0 /\ subreaper /\ front # "none"
    /\ oLeft' = oLeft - 1
    /\ oZombies' = oZombies + 1
    /\ signals' = IF notified THEN Notify(signals) ELSE signals
    /\ UNCHANGED <<flagVars, mainVars, hsVars, fifo, notified, subreaper,
                   sockVars, cmd, outVars, brokerVars, pumpVars, rtVars, cont,
                   contDeath>>

(* --------------------------- specification ----------------------------- *)

Main ==
    \/ SignalNotify \/ OpenFifo \/ OpenFifoError \/ SyncWrite \/ LenCheck
    \/ TempDir \/ TempDirError \/ Listen \/ ListenError \/ GoBroker
    \/ BuildCmd \/ SetSubreaper \/ StartOk \/ StartFail
    \/ Wait4Front \/ Wait4FrontError \/ CloseLog \/ WriteStatus \/ ParsePid
    \/ RecvSignal \/ ReapNone \/ ReapOther \/ ReapContainer \/ IoWait
    \/ WriteExitcode \/ WriteExitcodeError

Broker ==
    \/ Accept \/ AcceptError \/ CloseListener \/ ConnFile \/ RecvFd
    \/ RecvFdError \/ RemoveAll \/ StreamProcess \/ ReadPidAttempt
    \/ BrokerPanic

Pumps == StdoutPumpEOF \/ StdinPumpEOF

Env == RtConnect \/ RtSendFd \/ RtFork \/ RtWritePid \/ RtExit \/ ContExit
       \/ OrphanExit

Next == Main \/ Broker \/ Pumps \/ FinalizeExitFifo \/ Env

Spec == Init /\ [][Next]_vars

\* the steps of the Phase B loop that the main goroutine takes when it can
PhaseBStep ==
    \/ RecvSignal \/ ReapNone \/ ReapOther \/ ReapContainer \/ IoWait
    \/ WriteExitcode

\* the Go scheduler runs a runnable goroutine: the main goroutine in
\* Phase B, and the master->stdout copy once the master is at EOF
Fairness == WF_vars(PhaseBStep) /\ WF_vars(StdoutPumpEOF)

LiveSpec == InitAnyCap /\ [][Next]_vars /\ Fairness

(* ------------------------------ properties ----------------------------- *)

\* value of a sequence of decimal digits
RECURSIVE DecimalValue(_)
DecimalValue(ds) ==
    IF ds = << >> THEN 0
    ELSE 10 * DecimalValue(SubSeq(ds, 1, Len(ds) - 1)) + ds[Len(ds)]

\* positions of the main goroutine inside Phase B
PhaseBPcs == {"parsePid", "recv", "reap", "ioWait", "writeExit"}

PhaseBEntered == pc \in PhaseBPcs \/ pidReads > 0 \/ exitcodeWrites > 0

\* C1: in TTY mode the exitcode file is written only after the
\* master->stdout pump has observed EOF on the master fd, for every
\* interleaving of the main goroutine, the broker and the pump.
C1_ExitcodeAfterPumpEOF ==
    (tty /\ exitcodeWrites > 0) => stdoutPump = "done"

\* the exit code the manager expects for the way the container died
ExpectedExitCode ==
    IF contDeath.kind = "signal" THEN 128 + contDeath.n ELSE contDeath.n

\* C2: once Phase B has ended, the decimal value in the exitcode file and
\* the supervisor's exit code are 128 + signal for a container killed by a
\* signal and the container's exit status otherwise.
C2_ExitCodeValue ==
    (proc = "exited" /\ exitcodeWrites > 0) =>
        /\ exitcodeFile # << >>
        /\ DecimalValue(exitcodeFile) = ExpectedExitCode
        /\ exitCode = ExpectedExitCode

C2_Witness ==
    /\ proc = "exited" /\ exitcodeWrites > 0
    /\ contDeath.kind = "signal" /\ contDeath.core
    /\ exitcodeFile = <<1, 3, 9>>

\* C3: when starting the runtime fails (TTY or not), the only byte on fd 3
\* is 2, the supervisor exits with code 2 and no exitcode file is written.
C3_StartFailure ==
    startErr = "err" =>
        /\ fd3 = <<2>>
        /\ proc = "exited" /\ exitCode = 2
        /\ exitcodeWrites = 0 /\ exitcodeFile = << >>

C3_Witness ==
    /\ startErr = "err" /\ tty /\ listener = "listening" /\ bpc = "accept"

\* C4: when the front-process exits with status s # 0, any byte on fd 3 is
\* s, a return from run is with code 3 after that byte, the main sequence
\* never reads the pid file, never enters Phase B and writes no exitcode file.
C4_FrontFailure ==
    (frontDeath.kind = "exit" /\ frontDeath.n # 0) =>
        /\ fd3 \in {<< >>, <<frontDeath.n>>}
        /\ proc = "exited" => (exitCode = 3 /\ fd3 = <<frontDeath.n>>)
        /\ pidReads = 0 /\ containerPid = -1
        /\ ~PhaseBEntered
        /\ exitcodeWrites = 0 /\ exitcodeFile = << >>

C4_Witness ==
    /\ frontDeath.kind = "exit" /\ frontDeath.n = 5
    /\ proc = "exited" /\ exitCode = 3 /\ fd3 = <<5>>

\* C5: the sync byte 0 is on fd 5 only after all five FIFOs were opened (the
\* existing ones are open), and the socket directory, the listener and the
\* runtime exist only after the sync byte was written.
C5_SyncOrdering ==
    /\ fd5 \in {<< >>, <<0>>}
    /\ fd5 # << >> =>
          \A i \in 1..Len(Fifos) :
              /\ fifo[i] # "unopened"
              /\ Fifos[i] \in fifosPresent => fifo[i] \in {"open", "closed"}
    /\ (sockDir # "none" \/ listener # "none" \/ ttySockPathLen # 0
        \/ bpc # "none" \/ startErr # "none" \/ front # "none")
          => fd5 = <<0>>
    /\ pc \in {"lenCheck", "tempDir"} =>
          (fd5 = <<0>> /\ sockDir = "none" /\ listener = "none"
           /\ front = "none")

C5_Witness ==
    /\ fd5 = <<0>> /\ listener = "listening" /\ front = "running"
    /\ fifo[Len(Fifos)] = "open"

\* C6 as stated: past the length check the total TTY socket path that is
\* listened on and passed to the runtime is at most 80 bytes.
C6_TotalPathAtMost80 ==
    /\ ttySockPathLen <= MaxSocketDirPathLength
    /\ cmd.sockLen <= MaxSocketDirPathLength

\* the longest path setupTTYSocket can build under a checked directory
MaxTtySockPathLen ==
    MaxSocketDirPathLength + 1 + MaxNameLen + 1 + TtySockNameLen

\* C6 (amended): past the length check the socket-dir-path is at most 80
\* bytes; the path listened on is the one passed to the runtime, and for a
\* non-empty socket-dir-path it is at most that length plus the two
\* separators, the random name and "tty.sock", which can exceed 80.
C6_DirPathBound ==
    ttySockPathLen > 0 =>
        /\ socketDirLen <= MaxSocketDirPathLength
        /\ socketDirLen > 0 =>
              /\ ttySockPathLen > socketDirLen + 1 + TtySockNameLen
              /\ ttySockPathLen <=
                    socketDirLen + 1 + MaxNameLen + 1 + TtySockNameLen
        /\ ttySockPathLen <= MaxTtySockPathLen
        /\ cmd.form = "tty" => cmd.sockLen = ttySockPathLen
        /\ listener # "none" /\ front # "none" => cmd.sockLen = ttySockPathLen

C6_Witness ==
    /\ socketDirLen = MaxSocketDirPathLength
    /\ ttySockPathLen > MaxSocketDirPathLength
    /\ listener = "listening" /\ front = "running"
    /\ cmd.sockLen = ttySockPathLen

\* C7: with --tty and a socket-dir-path longer than 80 bytes the supervisor
\* aborts before any external side effect: no FIFO opened, no sync byte, no
\* status byte, no socket directory, runtime not spawned.
C7_AbortBeforeSideEffects ==
    (tty /\ socketDirLen > MaxSocketDirPathLength /\ proc = "panicked"
     /\ pc = "lenCheck") =>
        /\ \A i \in 1..Len(Fifos) : fifo[i] # "open"
        /\ fd5 = << >>
        /\ fd3 = << >>
        /\ sockDir = "none"
        /\ front = "none" /\ startErr = "none"

\* C8: the status byte of the front-process is on fd 3 before any Phase B
\* step (pid file read, signal drain, waitpid(-1), exitcode write), and
\* Phase B is entered exactly when that byte is 0.
C8_StatusBeforePhaseB ==
    /\ (PhaseBEntered \/ containerPid # -1 \/ wstatus # -1) => fd3 = <<0>>
    /\ (startErr = "nil" /\ fd3 # << >>) =>
          (PhaseBEntered <=> fd3[1] = 0)
    /\ (pc \in {"wait4", "closeLog", "status"}) =>
          (fd3 = << >> /\ ~PhaseBEntered /\ containerPid = -1)

C8_Witness ==
    /\ pc = "reap" /\ fd3 = <<0>> /\ pidReads = 1 /\ proc = "running"

\* C9: at most one byte is ever written to fd 3, and exactly one has been
\* written whenever run has returned.
C9_OneStatusByte ==
    /\ Len(fd3) <= 1
    /\ proc = "exited" => Len(fd3) = 1

C9_Witness ==
    /\ proc = "exited" /\ exitcodeWrites = 1 /\ Len(fd3) = 1

\* C10: on the start-failure path the supervisor has closed the log fd
\* before it exits.
C10_LogClosedOnStartFailure ==
    (startErr = "err" /\ proc = "exited") => logFD = "closed"

\* C11: after a front-process exit of 0 the main sequence reads the pid
\* file with a retry of up to 20 attempts; a read that fails because the
\* file does not exist yet is retried, so the main sequence aborts at the
\* pid read only after more reads than one.
C11_MainPidReadRetried ==
    (proc = "panicked" /\ pc = "parsePid" /\ pidReads > 0) =>
        pidReads >= RetryBackoffs

\* C12: SIGCHLD notification is registered first, the subreaper flag is set
\* after it, and the runtime is started only when both are in place.
C12_NotifyThenSubreaperThenStart ==
    /\ subreaper => notified
    /\ pc \in {"notify"} => (~notified /\ ~subreaper)
    /\ (startErr # "none" \/ front # "none" \/ cont # "none") =>
          (notified /\ subreaper)
    /\ pc = "start" => (notified /\ subreaper /\ front = "none")

C12_Witness ==
    /\ front = "running" /\ startErr = "nil" /\ notified /\ subreaper

\* C14: every fatal error after the runtime has started is preceded by a
\* best-effort kill of the container (killProcess has run) before the abort.
C14_KillBeforeAbort ==
    (proc = "panicked" /\ startErr = "nil") => bpc = "panic"

\* C15: in Phase B only the tracked container pid is recorded: reaping
\* another child writes no exitcode file, keeps the loop going and leaves
\* what is recorded unchanged; the exitcode file is written at most once,
\* with the status of the child whose pid is the container pid.
C15_OnlyContainerRecorded ==
    /\ [](/\ exitcodeWrites <= 1
          /\ wstatus # -1 =>
                (cont = "reaped" /\ containerPid = ContPid
                 /\ wstatus = WaitStatusOf(contDeath))
          /\ exitcodeWrites = 1 =>
                (/\ cont = "reaped" /\ containerPid = ContPid
                 /\ wstatus = WaitStatusOf(contDeath)
                 /\ DecimalValue(exitcodeFile) = ExpectedExitCode))
    /\ [][oZombies' < oZombies =>
            (/\ pc = "reap" /\ pc' = "reap" /\ proc' = "running"
             /\ UNCHANGED <<exitcodeFile, exitcodeWrites, wstatus, exitCode,
                            containerPid, cont>>)]_vars

C15_Witness ==
    /\ oLeft < MaxOrphans /\ oZombies = 0
    /\ exitcodeWrites = 1 /\ proc = "exited"
    /\ exitcodeFile = <<7>>

\* C16: when accept, the connection's file or the receipt of the master fd
\* fails in the broker, killProcess runs first (pid file read with bounded
\* retry, SIGKILL if a pid was read) and the broker panics only after it;
\* the pumps are never started.
C16_BrokerFailureKillsFirst ==
    /\ bpc \in {"kill", "panic"} =>
          (/\ stdoutPump = "none" /\ stdinPump = "none" /\ winszPump = "none"
           /\ ioWg = 0 /\ sockDir = "exists")
    /\ bpc = "kill" => (kills = {} /\ retries <= RetryBackoffs)
    /\ bpc = "panic" =>
          \/ kills = {ContPid} /\ pidFile = "valid"
          \/ kills = {} /\ retries = RetryBackoffs

C16_Witness ==
    /\ bpc = "panic" /\ proc = "panicked" /\ kills = {ContPid}
    /\ conn = "accepted" /\ listener = "closed"

\* C17: the socket exists and its path is in the command before the runtime
\* is invoked; one connection is accepted, from the listening socket; the
\* listener is closed before the master fd is received; the socket
\* directory is removed after the master fd was received and before the
\* pumps start, so it no longer exists while the pumps run.
C17_BrokerOrder ==
    /\ []((tty /\ startErr # "none") =>
             (/\ listener # "none" /\ bpc # "none" /\ sockDir # "none"
              /\ ttySockPathLen > 0 /\ cmd.sockLen = ttySockPathLen))
    /\ [](conn = "accepted" => (bpc \notin {"none", "accept"}))
    /\ [](bpc \in {"file", "recvFd", "removeAll", "stream", "done"} =>
             (listener = "closed" /\ conn = "accepted"))
    /\ [](sockDir = "removed" => (fdSent /\ bpc \in {"stream", "done"}))
    /\ [](bpc \in {"removeAll", "stream", "done"} => fdSent)
    /\ []((stdoutPump # "none" \/ stdinPump # "none" \/ winszPump # "none")
             => (sockDir = "removed" /\ bpc = "done"))
    /\ [][(conn' = "accepted" /\ conn # "accepted") =>
             (bpc = "accept" /\ listener = "listening")]_vars

C17_Witness ==
    /\ stdoutPump = "running" /\ sockDir = "removed" /\ listener = "closed"
    /\ fdSent /\ proc = "running"

\* C19: only the master->stdout pump counts in the wait counter: with that
\* pump finished the wait returns whatever the stdin and winsz pumps do, and
\* without a TTY the counter is always zero.
C19_OnlyStdoutPumpTracked ==
    /\ ioWg = (IF stdoutPump = "running" THEN 1 ELSE 0)
    /\ (pc = "ioWait" /\ proc = "running" /\ stdoutPump # "running") =>
          ENABLED IoWait
    /\ ~tty => (/\ ioWg = 0 /\ stdoutPump = "none" /\ stdinPump = "none"
                /\ winszPump = "none")
    /\ (~tty /\ wstatus # -1 /\ proc = "running") =>
          (pc \in {"ioWait", "writeExit"} /\ ENABLED (IoWait \/ WriteExitcode))

C19_Witness ==
    /\ exitcodeWrites = 1 /\ stdoutPump = "done"
    /\ stdinPump = "running" /\ winszPump = "running"

\* C20: killProcess sends SIGKILL only to a pid parsed from the pid file;
\* when every attempt fails no signal is sent (never to -1); the retries are
\* bounded, each failed attempt using up one of them.
C20_KillOnlyParsedPid ==
    /\ [](/\ kills \subseteq {ContPid}
          /\ -1 \notin kills
          /\ kills # {} => pidFile = "valid"
          /\ retries \in 0..RetryBackoffs
          /\ (pidFile # "valid" /\ bpc = "panic") =>
                (kills = {} /\ retries = RetryBackoffs))
    /\ [][retries' # retries =>
            (/\ bpc = "kill" /\ pidFile # "valid"
             /\ retries' = retries + 1 /\ kills' = kills)]_vars
    /\ [][kills' # kills => (bpc = "kill" /\ pidFile = "valid"
                             /\ bpc' = "panic")]_vars

C20_Witness ==
    /\ bpc = "panic" /\ kills = {} /\ retries = RetryBackoffs
    /\ pidFile # "valid"

\* C18: the descriptor opened on the exit FIFO stays open from openPipes on
\* for as long as the supervisor runs; it is closed only by its exit.
C18_ExitFifoHeldOpen ==
    (proc = "running" /\ pc \notin {"notify", "openPipes"}
     /\ Fifos[Len(Fifos)] \in fifosPresent) =>
        fifo[Len(Fifos)] = "open"

\* C13: whatever the capacity (>= 1) of the signals channel, with SIGCHLD
\* dropped at a full channel: once the pid was read and the container has
\* died, the main goroutine, scheduled fairly, reaps the container pid and
\* then writes the exitcode file (or the supervisor has aborted).
C13_ContainerExitNotLost ==
    /\ (proc = "running" /\ containerPid # -1 /\ cont = "zombie")
          ~> (cont = "reaped" \/ proc # "running")
    /\ (proc = "running" /\ wstatus # -1)
          ~> (exitcodeWrites = 1 \/ proc = "panicked")

\* three children died with room for one SIGCHLD, and the container waits
C13_Witness ==
    /\ sigCap = 1 /\ signals = 1 /\ proc = "running" /\ pc = "recv"
    /\ containerPid = ContPid /\ cont = "zombie" /\ oZombies > 0

====
